---- MODULE Spec2Model ----
(***************************************************************************)
(* Model of the Homer execution engine (src/homer/__init__.py): the three  *)
(* actions generate / diff / commit, the per-device loop of _execute, the  *)
(* three per-device handlers, the interactive confirmation callback and    *)
(* the exit status computed by _parse_results.                             *)
(*                                                                         *)
(* The device directory, the configuration assembler, the renderer and the *)
(* device transport are collaborators whose code is not part of the file;  *)
(* each of their calls is a nondeterministic choice over the outcomes      *)
(* their contract allows (a value, or a raised error).                     *)
(***************************************************************************)
EXTENDS Integers, Sequences, FiniteSets, TLC

\* ------------------------------------------------------------------ bounds
NumDevices == 3

\* --------------------------------------------------------------- universe
Fqdns == 1..NumDevices

\* The ordered results a valid query can produce: devices with distinct
\* fully-qualified names (the directory is keyed by fqdn).
Selections ==
    UNION {{s \in [1..n -> Fqdns] : \A i, j \in 1..n : i # j => s[i] # s[j]} :
           n \in 0..NumDevices}

Configs == {"cfg1", "cfg2"}
DiffTexts == {"", "+set x;"}
Responses == {"yes", "no", "maybe"}
Actions == {"generate", "diff", "commit"}

OUT_EXTENSION == ".out"

\* Directory entries are keyed by <<stem, suffix>>.
OutPath(f) == <<f, OUT_EXTENSION>>
NotesPath == <<0, ".txt">>
File(text) == [is_file |-> TRUE, content |-> text]
EmptyDir == [p \in {} |-> File("")]
\* The directory a first run may find: another file and a file generated
\* by an earlier run.
StaleDir == [p \in {NotesPath, OutPath(1)} |-> File("stale")]

VARIABLES
    pc,             \* position of the process in the run
    action,         \* the action of the run: generate / diff / commit
    query,          \* the query handed to the action
    netbox_api,     \* TRUE when an inventory client is configured
    isatty,         \* TRUE when stdout is an interactive terminal
    out_exists,     \* the output directory exists
    out_dir,        \* the entries of the output directory
    selection,      \* the sequence the query resolved to
    idx,            \* position of the loop in selection (1-based)
    device_config,  \* the text rendered for the current device
    successes,      \* outcome map: [TRUE |-> fqdns, FALSE |-> fqdns]
    diffs,          \* diff map: diff text |-> fqdns
    status,         \* the value returned by the action, -1 while none
    error,          \* the error that left the action, "" while none
    connection,     \* fqdns whose scoped connection is currently held
    attempts,       \* iterations of the prompt loop done in this callback
    cur,            \* history of the iteration in progress or just ended
    hist,           \* history of the run: sets of fqdns
    data,           \* what assembling and rendering each device gives,
                    \* where that is fixed from one run to the next
    first           \* what an earlier run of the process left

vars == <<pc, action, query, netbox_api, isatty, out_exists, out_dir,
          selection, idx, device_config, successes, diffs, status, error,
          connection, attempts, cur, hist, data, first>>

\* What is fixed for the duration of a run.
run_consts == <<action, query, netbox_api, isatty, selection, data, first>>

\* ------------------------------------------------------------ history
\* cur is reset when an iteration of the loop starts and is written only
\* by the step that performs the event it records.
NoCur ==
    [fqdn      |-> 0,       \* the device of the iteration, 0 before any
     pos       |-> 0,       \* its position in the selection
     raised    |-> "",      \* the operation that raised, "" if none
     invoked   |-> FALSE,   \* the action handler was called
     connects  |-> 0,       \* calls of connected_device
     shown     |-> FALSE,   \* the callback displayed the diff
     responses |-> <<>>,    \* the operator responses the callback read
     cb        |-> "",      \* how the callback ended, "" if it did not
     finalized |-> FALSE,   \* the transport finalized the commit
     result    |-> <<>>]    \* the (success, diff) pair the handler returned

NoHist ==
    [render_failed |-> {},  \* devices whose assembly or render raised
     invoked       |-> {},  \* devices whose handler was called
     aborted       |-> {},  \* devices whose confirmation callback raised
     finalized     |-> {},  \* devices whose commit was finalized
     results       |-> [f \in {} |-> <<>>]]
                            \* the (success, diff) pair the handler
                            \* returned, for each device it returned for

\* ------------------------------------------------------------ helpers
NoSuccesses == [b \in BOOLEAN |-> <<>>]
NoDiffs == [k \in {} |-> <<>>]

\* A variant of DictAppend that assigns a fresh list to the key.
DictAppend_assign(m, key, value) ==
    [k \in DOMAIN m \cup {key} |-> IF k = key THEN <<value>> ELSE m[k]]

\* diffs[key].append(value) on a defaultdict(list)
DictAppend(m, key, value) ==
    IF key \in DOMAIN m
    THEN [m EXCEPT ![key] = Append(@, value)]
    ELSE [k \in DOMAIN m \cup {key} |-> IF k = key THEN <<value>> ELSE m[k]]

DictPut(m, key, value) ==
    [k \in DOMAIN m \cup {key} |-> IF k = key THEN value ELSE m[k]]

Range(s) == {s[i] : i \in 1..Len(s)}

CurFqdn == selection[idx]

PromptAttempts == 2

\* ------------------------------------------------------------ Init
\* The state after Homer.__init__: nothing run yet.
\* The outcomes of the try block of lines 218-222 for a device: the
\* rendered text, or a HomerError.
RenderOutcomes == Configs \cup {"HomerError"}

\* Nothing is assumed about what the devices render to.
NoData == <<>>

\* No earlier run of the process.
NoFirst == [ran |-> FALSE, completed |-> FALSE, query |-> <<>>,
            out_dir |-> EmptyDir]

InitRun ==
    /\ pc = "idle"
    /\ action = ""
    /\ query = [valid |-> TRUE, result |-> <<>>]
    /\ netbox_api \in BOOLEAN
    /\ isatty = FALSE
    /\ out_exists \in BOOLEAN
    /\ out_dir = (IF out_exists THEN StaleDir ELSE EmptyDir)
    /\ selection = <<>>
    /\ idx = 1
    /\ device_config = ""
    /\ successes = NoSuccesses
    /\ diffs = NoDiffs
    /\ status = -1
    /\ error = ""
    /\ connection = {}
    /\ attempts = 0
    /\ cur = NoCur
    /\ hist = NoHist
    /\ first = NoFirst

\* The object after construction, lines 37-64.
Init ==
    /\ InitRun
    /\ data = NoData

Queries ==
    {[valid |-> TRUE, result |-> s] : s \in Selections}
        \cup {[valid |-> FALSE, result |-> <<>>]}

\* A variant of prepare_out_dir that removes nothing.
prepare_out_dir_keeps(dir) == dir

\* ------------------------------------------------------------ entry points
\* _prepare_out_dir: mkdir(parents, exist_ok), then unlink every regular
\* file of the directory whose suffix is OUT_EXTENSION.
prepare_out_dir(dir) ==
    LET keep == {p \in DOMAIN dir :
                    ~(dir[p].is_file /\ p[2] = OUT_EXTENSION)}
    IN  [p \in keep |-> dir[p]]

Enter(a, q) ==
    /\ pc = "idle"
    /\ action' = a
    /\ query' = q
    /\ pc' = "execute"
    /\ UNCHANGED <<netbox_api, selection, idx, device_config,
                   successes, diffs, status, error, connection, attempts,
                   cur, hist, data, first>>

\* A variant of generate that does not prepare the output directory.
generate_without_prepare ==
    \E q \in Queries :
        /\ Enter("generate", q)
        /\ UNCHANGED <<out_exists, out_dir, isatty>>

\* Lines 76-77: the output directory is prepared before _execute is called.
generate ==
    \E q \in Queries :
        /\ Enter("generate", q)
        /\ out_exists' = TRUE
        /\ out_dir' = prepare_out_dir(out_dir)
        /\ UNCHANGED isatty

diff ==
    \E q \in Queries :
        /\ Enter("diff", q)
        /\ UNCHANGED <<out_exists, out_dir, isatty>>

\* Only a commit run reads sys.stdout.isatty(); whether the process is
\* attached to a terminal is an input of the run.
commit ==
    \E q \in Queries, tty \in BOOLEAN :
        /\ Enter("commit", q)
        /\ isatty' = tty
        /\ UNCHANGED <<out_exists, out_dir>>

\* ------------------------------------------------------------ _execute
\* A variant of execute_query that treats a rejected query as one that
\* selects nothing.
execute_query_swallows ==
    /\ pc = "execute"
    /\ diffs' = NoDiffs
    /\ successes' = NoSuccesses
    /\ selection' = query.result
    /\ idx' = 1
    /\ pc' = "loop"
    /\ error' = error
    /\ UNCHANGED <<action, query, netbox_api, isatty, out_exists,
                   out_dir, device_config, status, connection, attempts,
                   cur, hist, data, first>>

\* Lines 213-215: fresh aggregates, then the query is resolved once.
execute_query ==
    /\ pc = "execute"
    /\ diffs' = NoDiffs
    /\ successes' = NoSuccesses
    /\ IF query.valid
       THEN /\ selection' = query.result
            /\ idx' = 1
            /\ pc' = "loop"
            /\ error' = error
       ELSE /\ pc' = "raised"
            /\ error' = "SelectionError"
            /\ UNCHANGED <<selection, idx>>
    /\ UNCHANGED <<action, query, netbox_api, isatty, out_exists,
                   out_dir, device_config, status, connection, attempts,
                   cur, hist, data, first>>

\* The stages of the try block (lines 219-222) that may raise HomerError.
RenderStages ==
    {"config.get", "renderer.render"}
        \cup (IF netbox_api THEN {"NetboxData"} ELSE {})

\* A variant of execute_append that records the device in both buckets.
execute_append_both(s, flag, f) ==
    [b \in BOOLEAN |-> Append(s[b], f)]

\* A variant of execute_append that inserts the device at the front.
execute_append_front(s, flag, f) ==
    [s EXCEPT ![flag] = <<f>> \o @]

\* Line 225 / line 229: successes[flag].append(device.fqdn)
execute_append(s, flag, f) ==
    [s EXCEPT ![flag] = Append(@, f)]

\* A variant of execute_except without the continue: the failure is
\* recorded and the iteration goes on to call the handler.
execute_except_no_continue(c) ==
    /\ successes' = execute_append(successes, FALSE, CurFqdn)
    /\ cur' = [c EXCEPT !.raised = "render"]
    /\ hist' = [hist EXCEPT !.render_failed = @ \cup {CurFqdn}]
    /\ idx' = idx
    /\ pc' = "callback"
    /\ UNCHANGED device_config

\* Lines 223-226: the except branch; the device is recorded as failed and
\* skipped (continue).  c is the history of the iteration.
execute_except(c) ==
    /\ successes' = execute_append(successes, FALSE, CurFqdn)
    /\ cur' = [c EXCEPT !.raised = "render"]
    /\ hist' = [hist EXCEPT !.render_failed = @ \cup {CurFqdn}]
    /\ idx' = idx + 1
    /\ pc' = "loop"
    /\ UNCHANGED device_config

\* Lines 216-226: one iteration up to the call of the handler.
execute_render ==
    /\ pc = "loop"
    /\ idx <= Len(selection)
    /\ LET c == [NoCur EXCEPT !.fqdn = CurFqdn, !.pos = idx]
       IN  \/ \E stage \in RenderStages : execute_except(c)
           \/ \E cfg \in Configs :
                /\ device_config' = cfg
                /\ cur' = c
                /\ pc' = "callback"
                /\ UNCHANGED <<successes, idx, hist>>
    /\ UNCHANGED <<run_consts, out_exists, out_dir, diffs, status, error,
                   connection, attempts>>

\* A variant of HandlerReturns that lists the device in the diff map only
\* when the handler reported success.
HandlerReturns_diff_on_success(ok, text, c, h) ==
    /\ successes' = execute_append(successes, ok, CurFqdn)
    /\ diffs' = IF ok THEN DictAppend(diffs, text, CurFqdn) ELSE diffs
    /\ cur' = [c EXCEPT !.result = <<ok, text>>]
    /\ hist' = [h EXCEPT !.results = DictPut(@, CurFqdn, <<ok, text>>)]
    /\ idx' = idx + 1
    /\ pc' = "loop"
    /\ UNCHANGED <<status, error>>

\* Lines 228-230: the handler returned (ok, text); c and h are the
\* histories the handler leaves behind.
HandlerReturns(ok, text, c, h) ==
    /\ successes' = execute_append(successes, ok, CurFqdn)
    /\ diffs' = DictAppend(diffs, text, CurFqdn)
    /\ cur' = [c EXCEPT !.result = <<ok, text>>]
    /\ hist' = [h EXCEPT !.results = DictPut(@, CurFqdn, <<ok, text>>)]
    /\ idx' = idx + 1
    /\ pc' = "loop"
    /\ UNCHANGED <<status, error>>

\* Line 228: the handler raised; nothing in _execute or in the action
\* catches it, so it leaves the run.
HandlerRaises(err, c, h) ==
    /\ pc' = "raised"
    /\ error' = err
    /\ cur' = c
    /\ hist' = h
    /\ UNCHANGED <<successes, diffs, idx, status>>

Invoked == [hist EXCEPT !.invoked = @ \cup {CurFqdn}]

\* ------------------------------------------------------------ generate
\* Lines 127-132.  open(path, 'w') creates or truncates the file, write
\* fills it; either may raise OSError, which is not a HomerError.
device_generate ==
    /\ pc = "callback"
    /\ action = "generate"
    /\ LET f == CurFqdn
           c == [cur EXCEPT !.invoked = TRUE]
       IN  \/ /\ out_dir' = DictPut(out_dir, OutPath(f), File(device_config))
              /\ HandlerReturns(TRUE, "", c, Invoked)
           \/ /\ out_dir' = out_dir
              /\ HandlerRaises("OSError", [c EXCEPT !.raised = "open"],
                               Invoked)
           \/ /\ out_dir' = DictPut(out_dir, OutPath(f), File(""))
              /\ HandlerRaises("OSError", [c EXCEPT !.raised = "write"],
                               Invoked)
    /\ UNCHANGED <<run_consts, out_exists, device_config, connection,
                   attempts>>

\* ------------------------------------------------------------ transport
\* A variant of with_exit that releases the connection on a return only,
\* as a close() call placed after the block's body would.
with_exit_on_return_only(conn, f, path) ==
    IF path = "raise" THEN conn ELSE conn \ {f}

\* "with connected_device(fqdn) as connection" (lines 146, 183): entering
\* the block opens the connection or raises; leaving the block, by a
\* return or by a raised error, releases it.
with_exit(conn, f, path) ==
    conn \ {f}

\* The outcomes of the transport's operations: connected_device(fqdn)
\* yields a connection or raises; commit_check returns a (success, diff)
\* pair or raises; commit raises before it calls the callback or calls
\* it, and after the callback returned it finalizes or raises.
ConnectOutcomes == {"connected", "HomerError"}
CommitCheckOutcomes ==
    {[raises |-> FALSE, ok |-> b, text |-> t] : b \in BOOLEAN, t \in DiffTexts}
        \cup {[raises |-> TRUE, ok |-> FALSE, text |-> ""]}
CommitStageOutcomes == {"callback", "HomerError"}
CommitFinalizeOutcomes == {"finalized", "HomerError"}

\* The handler is called and enters the with block.
Connect ==
    /\ pc = "callback"
    /\ LET f == CurFqdn
           c == [cur EXCEPT !.invoked = TRUE, !.connects = @ + 1]
       IN  \E o \in ConnectOutcomes :
             IF o = "connected"
             THEN /\ connection' = connection \cup {f}
                  /\ pc' = "connected"
                  /\ cur' = c
                  /\ hist' = Invoked
                  /\ UNCHANGED <<successes, diffs, idx, status, error>>
             ELSE /\ connection' = connection
                  /\ HandlerRaises("HomerError",
                                   [c EXCEPT !.raised = "connect"], Invoked)
    /\ UNCHANGED <<run_consts, out_exists, out_dir, device_config, attempts>>

\* ------------------------------------------------------------ diff
\* Line 146.
device_diff_connect ==
    /\ action = "diff"
    /\ Connect

\* Line 147: the pair commit_check reports is returned as it is; an error
\* it raises leaves the handler through the with block.
device_diff ==
    /\ pc = "connected"
    /\ action = "diff"
    /\ LET f == CurFqdn
       IN  \E o \in CommitCheckOutcomes :
             IF ~o.raises
             THEN /\ connection' = with_exit(connection, f, "return")
                  /\ HandlerReturns(o.ok, o.text, cur, hist)
             ELSE /\ connection' = with_exit(connection, f, "raise")
                  /\ HandlerRaises("HomerError",
                                   [cur EXCEPT !.raised = "commit_check"],
                                   hist)
    /\ UNCHANGED <<run_consts, out_exists, out_dir, device_config, attempts>>

\* ------------------------------------------------------------ commit
\* Line 183.
device_commit_connect ==
    /\ action = "commit"
    /\ Connect

\* A variant of device_commit_except without the except clause: the error
\* leaves the handler.
device_commit_except_propagates(c, h) ==
    /\ connection' = with_exit(connection, CurFqdn, "raise")
    /\ HandlerRaises("HomerError", c, h)

\* Lines 187-189: a HomerError raised by connection.commit is logged and
\* the handler returns (False, '').
device_commit_except(c, h) ==
    /\ connection' = with_exit(connection, CurFqdn, "return")
    /\ HandlerReturns(FALSE, "", c, h)

\* Line 186: connection.commit returned.
device_commit_return(c, h) ==
    /\ connection' = with_exit(connection, CurFqdn, "return")
    /\ HandlerReturns(TRUE, "", c, h)

Aborted == [hist EXCEPT !.aborted = @ \cup {CurFqdn}]

\* A variant of callback_enters without the isatty test.
callback_enters_always(tty) ==
    TRUE

\* Lines 165-169: the start of the callback.  TRUE when the callback goes
\* on to display the diff and prompt, FALSE when it raises.
callback_enters(tty) ==
    tty

\* A variant of range_start that goes on from the count the previous
\* callback ended with.
range_start_carried(n) == n

\* Line 171: "for _ in range(2)" starts a new iteration count each time
\* the callback is called, whatever count n an earlier call ended with.
range_start(n) == 0

\* Line 185: connection.commit runs up to the point where the callback has
\* been called and is waiting for the first response.  The transport may
\* raise before calling the callback; the callback raises without a TTY.
device_commit_call ==
    /\ pc = "connected"
    /\ action = "commit"
    /\ \E o \in CommitStageOutcomes :
          IF o = "HomerError"
          THEN /\ device_commit_except([cur EXCEPT !.raised = "commit"],
                                       hist)
               /\ UNCHANGED attempts
          ELSE IF callback_enters(isatty)
          THEN /\ cur' = [cur EXCEPT !.shown = TRUE]
               /\ attempts' = range_start(attempts)
               /\ pc' = "prompting"
               /\ UNCHANGED <<successes, diffs, idx, status, error,
                              connection, hist>>
          ELSE /\ device_commit_except(
                      [cur EXCEPT !.cb = "NOT_A_TTY", !.raised = "callback"],
                      Aborted)
               /\ UNCHANGED attempts
    /\ UNCHANGED <<run_consts, out_exists, out_dir, device_config>>

\* A variant of callback_step that recognises "no" on the first response
\* only.
callback_step_no_first_only(n, resp) ==
    IF resp = "yes" THEN "CONFIRMED"
    ELSE IF resp = "no" /\ n = 0 THEN "ABORTED"
    ELSE IF n + 1 < PromptAttempts THEN "PROMPTING"
    ELSE "TOO_MANY"

\* A variant of callback_step that leaves the loop on any valid response.
callback_step_break_on_valid(n, resp) ==
    IF resp \in {"yes", "no"} THEN "CONFIRMED"
    ELSE IF n + 1 < PromptAttempts THEN "PROMPTING"
    ELSE "TOO_MANY"

\* Lines 171-181: what one iteration of "for _ in range(2)" does with the
\* response, n iterations having been done before it.
callback_step(n, resp) ==
    IF resp = "yes" THEN "CONFIRMED"
    ELSE IF resp = "no" THEN "ABORTED"
    ELSE IF n + 1 < PromptAttempts THEN "PROMPTING"
    ELSE "TOO_MANY"

\* Line 172: one response is read.  attempts is the loop counter of the
\* callback: the number of responses that sent it round the loop again.
callback_input ==
    /\ pc = "prompting"
    /\ \E resp \in Responses :
        LET next == callback_step(attempts, resp)
            c == [cur EXCEPT !.responses = Append(@, resp)]
        IN  IF next = "PROMPTING"
            THEN /\ cur' = c
                 /\ attempts' = attempts + 1
                 /\ pc' = "prompting"
                 /\ UNCHANGED <<successes, diffs, idx, status, error,
                                connection, hist>>
            ELSE /\ UNCHANGED attempts
                 /\ IF next = "CONFIRMED"
                    THEN /\ cur' = [c EXCEPT !.cb = next]
                         /\ pc' = "finalize"
                         /\ UNCHANGED <<successes, diffs, idx, status,
                                        error, connection, hist>>
                    ELSE device_commit_except(
                             [c EXCEPT !.cb = next, !.raised = "callback"],
                             Aborted)
    /\ UNCHANGED <<run_consts, out_exists, out_dir, device_config>>

\* Line 185, after the callback returned: the transport finalizes the
\* commit, or fails to and raises.
device_commit_finalize ==
    /\ pc = "finalize"
    /\ \E o \in CommitFinalizeOutcomes :
          IF o = "finalized"
          THEN device_commit_return(
                   [cur EXCEPT !.finalized = TRUE],
                   [hist EXCEPT !.finalized = @ \cup {CurFqdn}])
          ELSE device_commit_except([cur EXCEPT !.raised = "commit"], hist)
    /\ UNCHANGED <<run_consts, out_exists, out_dir, device_config, attempts>>

\* ------------------------------------------------------------ results
\* A variant of parse_results that tests the success bucket.
parse_results_on_successes(s) ==
    IF s[TRUE] = <<>> THEN 1 ELSE 0

\* A variant of parse_results that also fails a run in which no device
\* succeeded.
parse_results_requires_success(s) ==
    IF s[FALSE] # <<>> \/ s[TRUE] = <<>> THEN 1 ELSE 0

\* _parse_results, lines 246-251.
parse_results(s) ==
    IF s[FALSE] # <<>> THEN 1 ELSE 0

\* Lines 79, 98, 113: the loop is exhausted, _execute returns and the
\* action returns the status.
run_return ==
    /\ pc = "loop"
    /\ idx > Len(selection)
    /\ status' = parse_results(successes)
    /\ pc' = "done"
    /\ UNCHANGED <<run_consts, out_exists, out_dir, idx, device_config,
                   successes, diffs, error, connection, attempts, cur, hist>>

\* ------------------------------------------------------------ specification
Next ==
    \/ generate
    \/ diff
    \/ commit
    \/ execute_query
    \/ execute_render
    \/ device_generate
    \/ device_diff_connect
    \/ device_diff
    \/ device_commit_connect
    \/ device_commit_call
    \/ callback_input
    \/ device_commit_finalize
    \/ run_return

Spec == Init /\ [][Next]_vars

\* ------------------------------------------- closing the connection fails
\* The outcomes of closing the connection when the with block is left:
\* the transport contract lets close raise a domain error.
CloseOutcomes == {"closed", "HomerError"}

\* Lines 146-147 and 183-186: the body of the with block evaluated its
\* return value (ok, text), and the error raised while the block is left
\* replaces it: the handler raises.  Whether the connection is still held
\* after the failed close is open.
with_exit_raises(ok, text, h) ==
    /\ connection' \in {connection, connection \ {CurFqdn}}
    /\ HandlerRaises("HomerError",
                     [cur EXCEPT !.raised = "close", !.result = <<ok, text>>],
                     h)

\* Lines 146-147: commit_check returned a pair and close raises.
device_diff_close ==
    /\ pc = "connected"
    /\ action = "diff"
    /\ "HomerError" \in CloseOutcomes
    /\ \E o \in CommitCheckOutcomes :
          /\ ~o.raises
          /\ with_exit_raises(o.ok, o.text, hist)
    /\ UNCHANGED <<run_consts, out_exists, out_dir, device_config, attempts>>

\* Lines 183-186: the commit was finalized, "return True, ''" is reached
\* and close raises.
device_commit_close ==
    /\ pc = "finalize"
    /\ "HomerError" \in CloseOutcomes
    /\ "finalized" \in CommitFinalizeOutcomes
    /\ with_exit_raises(TRUE, "",
                        [hist EXCEPT !.finalized = @ \cup {CurFqdn}])
    /\ UNCHANGED <<run_consts, out_exists, out_dir, device_config, attempts>>

NextClose ==
    \/ Next
    \/ device_diff_close
    \/ device_commit_close

SpecClose == Init /\ [][NextClose]_vars

\* ------------------------------------------------- generate, run twice
\* Number of runs of the process in a row.
Runs == 2

\* The data of every device is fixed: assembling and rendering a device
\* gives the same outcome each time.
InitRerun ==
    /\ InitRun
    /\ data \in [Fqdns -> RenderOutcomes]

\* generate is called; a second run is given the query of the first.
generate_run ==
    /\ generate
    /\ first.ran => query' = first.query

\* Lines 218-226 where the outcome for the device is the one of data.
execute_render_data ==
    /\ execute_render
    /\ IF data[CurFqdn] = "HomerError"
       THEN pc' = "loop"
       ELSE pc' = "callback" /\ device_config' = data[CurFqdn]

\* The process has ended, with a status or with an error, and is started
\* again: a new object is constructed (lines 37-64); the output directory
\* is what the ended run left.
rerun ==
    /\ pc \in {"done", "raised"}
    /\ ~first.ran
    /\ Runs > 1
    /\ first' = [ran |-> TRUE, completed |-> pc = "done", query |-> query,
                 out_dir |-> out_dir]
    /\ pc' = "idle"
    /\ action' = ""
    /\ query' = [valid |-> TRUE, result |-> <<>>]
    /\ selection' = <<>>
    /\ idx' = 1
    /\ device_config' = ""
    /\ successes' = NoSuccesses
    /\ diffs' = NoDiffs
    /\ status' = -1
    /\ error' = ""
    /\ attempts' = 0
    /\ cur' = NoCur
    /\ hist' = NoHist
    /\ UNCHANGED <<netbox_api, isatty, out_exists, out_dir, connection,
                   data>>

NextRerun ==
    \/ generate_run
    \/ execute_query
    \/ execute_render_data
    \/ device_generate
    \/ run_return
    \/ rerun

SpecRerun == InitRerun /\ [][NextRerun]_vars

TypeOK ==
    /\ pc \in {"idle", "execute", "loop", "callback", "connected",
               "prompting", "finalize", "done", "raised"}
    /\ action \in Actions \cup {""}
    /\ status \in {-1, 0, 1}
    /\ error \in {"", "SelectionError", "HomerError", "OSError"}
    /\ connection \subseteq Fqdns
    /\ attempts \in 0..PromptAttempts
    /\ idx \in 1..(Len(selection) + 1)
    /\ data \in [Fqdns -> RenderOutcomes] \cup {NoData}
    /\ first.ran \in BOOLEAN


\* ------------------------------------------------------------ properties
\* Number of times f is listed in the outcome map.
Occurrences(f) ==
    Cardinality({<<b, i>> \in BOOLEAN \X (1..NumDevices) :
                    i <= Len(successes[b]) /\ successes[b][i] = f})

Failed == Range(successes[FALSE])
Succeeded == Range(successes[TRUE])

\* C1: when the loop of _execute has returned, the success bucket and the
\* failure bucket are disjoint, their sizes sum to the number of selected
\* devices, and every selected device is listed exactly once in the
\* outcome map.
C1_Partition ==
    pc = "done" =>
        /\ Succeeded \cap Failed = {}
        /\ Len(successes[TRUE]) + Len(successes[FALSE]) = Len(selection)
        /\ Succeeded \cup Failed = Range(selection)
        /\ \A f \in Range(selection) : Occurrences(f) = 1

C1_Witness ==
    /\ pc = "done"
    /\ Len(selection) >= 2
    /\ Succeeded # {}
    /\ Failed # {}

\* The step in which assembly or rendering raises HomerError for a
\* device appends it to the failure bucket and to nothing else, touches no
\* file, connection or diff-map entry, and leaves the loop at the next
\* device; the handler is never called for such a device, a generate run
\* leaves no file for it, and a run that returns has processed every
\* selected device.
C2_Step ==
    /\ (pc = "loop" /\ idx <= Len(selection) /\ cur'.raised = "render") =>
          /\ successes'[FALSE] = Append(successes[FALSE], CurFqdn)
          /\ successes'[TRUE] = successes[TRUE]
          /\ ~cur'.invoked
          /\ cur'.connects = 0
          /\ out_dir' = out_dir
          /\ connection' = {}
          /\ diffs' = diffs
          /\ error' = ""
          /\ pc' = "loop"
          /\ idx' = idx + 1
    /\ hist'.render_failed \cap hist'.invoked = {}
    /\ \A f \in hist'.render_failed :
          /\ f \in Range(successes'[FALSE])
          /\ \A k \in DOMAIN diffs' : f \notin Range(diffs'[k])
          /\ action' = "generate" => OutPath(f) \notin DOMAIN out_dir'
    /\ pc' = "done" =>
          hist'.render_failed \cup hist'.invoked = Range(selection')

\* C2: every step of a run satisfies C2_Step: a render failure is recorded
\* as that device's failure only and the loop goes on to the next device.
C2_RenderFailureIsolated == [][C2_Step]_vars

C2_Witness ==
    /\ pc = "done"
    /\ Len(selection) >= 2
    /\ selection[1] \in hist.render_failed
    /\ selection[2] \in hist.invoked
    /\ selection[2] \in Succeeded

\* C3: for each of the three actions, the status returned is 1 if and only
\* if the failure bucket is not empty when the run ends, and 0 otherwise;
\* it is 0 when every selected device succeeded.
C3_Status ==
    status # -1 =>
        /\ action \in Actions
        /\ pc = "done"
        /\ status \in {0, 1}
        /\ status = 1 <=> Len(successes[FALSE]) >= 1
        /\ status = 0 <=> Len(successes[FALSE]) = 0
        /\ Succeeded = Range(selection) => status = 0

C3_Witness ==
    /\ status = 1
    /\ Succeeded # {}
    /\ action = "diff"

\* C4: in a diff or commit run, when the transport raises at connect,
\* commit-check or commit for a device, the device is in the failure
\* bucket and no error leaves the run.
C4_TransportErrorIsolated ==
    (action \in {"diff", "commit"}
        /\ cur.raised \in {"connect", "commit_check", "commit"}) =>
        /\ cur.fqdn \in Failed
        /\ error = ""
        /\ pc # "raised"

\* C5: in a generate run, when writing the output file of a device fails,
\* the device is in the failure bucket, no error leaves the run, and the
\* run returns status 1.
C5_WriteErrorIsolated ==
    (action = "generate" /\ cur.raised \in {"open", "write"}) =>
        /\ cur.fqdn \in Failed
        /\ error = ""
        /\ pc # "raised"
        /\ pc = "done" => status = 1

\* C6: in a commit run, when connection.commit raises HomerError for a
\* device (raised by the transport or by the confirmation callback), the
\* handler returns (False, ''): the device is the last of the failure
\* bucket and is listed under the empty diff, no error leaves the run and
\* the loop is at the next device; when connection.commit returns, the
\* handler returns (True, '').
C6_CommitErrorIsolated ==
    action = "commit" =>
        /\ cur.raised \in {"commit", "callback"} =>
              /\ cur.result = <<FALSE, "">>
              /\ Len(successes[FALSE]) >= 1
              /\ successes[FALSE][Len(successes[FALSE])] = cur.fqdn
              /\ cur.fqdn \notin Succeeded
              /\ "" \in DOMAIN diffs
              /\ cur.fqdn \in Range(diffs[""])
              /\ error = ""
              /\ pc \in {"loop", "done"}
              /\ idx = cur.pos + 1
        /\ cur.finalized =>
              /\ cur.result = <<TRUE, "">>
              /\ cur.fqdn \in Succeeded
              /\ cur.fqdn \notin Failed

C6_Witness ==
    /\ action = "commit"
    /\ cur.raised = "callback"
    /\ cur.cb = "ABORTED"
    /\ pc = "loop"
    /\ idx <= Len(selection)

IsValid(resp) == resp \in {"yes", "no"}

\* C7: on an interactive terminal the callback reads at most two responses
\* and ends CONFIRMED exactly when the first response is "yes" or the
\* first is invalid and the second is "yes"; ends with the operator abort
\* exactly when the first is "no" or the first is invalid and the second
\* is "no"; ends with the too-many-invalid-answers abort exactly when the
\* first two responses are both invalid.
C7_Confirmation ==
    (action = "commit" /\ cur.shown) =>
        LET r == cur.responses
            n == Len(r)
        IN  /\ isatty
            /\ n <= 2
            /\ cur.cb = "CONFIRMED" <=>
                  \/ n >= 1 /\ r[1] = "yes"
                  \/ n >= 2 /\ ~IsValid(r[1]) /\ r[2] = "yes"
            /\ cur.cb = "ABORTED" <=>
                  \/ n >= 1 /\ r[1] = "no"
                  \/ n >= 2 /\ ~IsValid(r[1]) /\ r[2] = "no"
            /\ cur.cb = "TOO_MANY" <=>
                  n >= 2 /\ ~IsValid(r[1]) /\ ~IsValid(r[2])
            /\ cur.cb \in {"", "CONFIRMED", "ABORTED", "TOO_MANY"}

C7_Witness ==
    /\ cur.shown
    /\ cur.responses = <<"maybe", "no">>
    /\ cur.cb = "ABORTED"

\* C8: without an interactive terminal the callback raises before the
\* diff is displayed and before any response is read, no commit is
\* finalized, and every device whose handler returned is in the failure
\* bucket.
C8_NotInteractive ==
    (action = "commit" /\ ~isatty) =>
        /\ pc \notin {"prompting", "finalize"}
        /\ ~cur.shown
        /\ cur.responses = <<>>
        /\ cur.cb \in {"", "NOT_A_TTY"}
        /\ cur.cb = "NOT_A_TTY" =>
              /\ cur.raised = "callback"
              /\ cur.result = <<FALSE, "">>
              /\ cur.fqdn \in Failed
        /\ cur.result # <<>> => cur.raised \in {"commit", "callback"}
        /\ hist.finalized = {}
        /\ hist.invoked \cap Succeeded = {}

C8_Witness ==
    /\ action = "commit"
    /\ ~isatty
    /\ cur.cb = "NOT_A_TTY"
    /\ cur.fqdn \in Failed

\* C9: in a commit run a commit is finalized only after the callback
\* returned on a literal "yes"; a device whose confirmation ended in an
\* abort is never finalized and is in the failure bucket.
C9_FinalizeOnlyOnYes ==
    action = "commit" =>
        /\ (cur.finalized \/ pc = "finalize") =>
              /\ cur.cb = "CONFIRMED"
              /\ cur.responses # <<>>
              /\ cur.responses[Len(cur.responses)] = "yes"
        /\ cur.cb \in {"ABORTED", "TOO_MANY", "NOT_A_TTY"} =>
              /\ ~cur.finalized
              /\ cur.fqdn \in hist.aborted
        /\ hist.finalized \cap hist.aborted = {}
        /\ hist.aborted \subseteq Failed
        /\ hist.aborted \cap Succeeded = {}

C9_Witness ==
    /\ action = "commit"
    /\ hist.finalized # {}
    /\ hist.aborted # {}
    /\ cur.cb = "TOO_MANY"

\* C10: in diff and commit runs at most one connection is held at any
\* time, it is the connection of the device being handled, and none is
\* held when the loop is at the start of an iteration, when the handler
\* has raised or when the run has ended.
C10_ConnectionReleased ==
    /\ Cardinality(connection) <= 1
    /\ pc \in {"connected", "prompting", "finalize"} =>
          connection = {CurFqdn}
    /\ pc \in {"idle", "execute", "loop", "callback", "done", "raised"} =>
          connection = {}

C10_Witness ==
    /\ action = "diff"
    /\ pc = "raised"
    /\ cur.raised = "commit_check"
    /\ cur.connects = 1
    /\ connection = {}


\* ------------------------------------------------------------ diff map
Returned == DOMAIN hist.results
TextOf(f) == hist.results[f][2]
FlagOf(f) == hist.results[f][1]
Groups == {Range(diffs[k]) : k \in DOMAIN diffs}
SameGroup(f, g) == \E k \in DOMAIN diffs : {f, g} \subseteq Range(diffs[k])

\* Number of times f is listed in the diff map.
DiffOccurrences(f) ==
    Cardinality({<<k, i>> \in (DOMAIN diffs) \X (1..NumDevices) :
                    i <= Len(diffs[k]) /\ diffs[k][i] = f})

\* C11: in a diff run two devices whose commit-check returned are listed
\* under the same key of the diff map if and only if it returned the same
\* diff text for both, each key is that text, and the groups are the
\* classes of "same diff text", whatever the order of the selection.
C11_Grouping ==
    action = "diff" =>
        /\ \A f, g \in Returned : SameGroup(f, g) <=> TextOf(f) = TextOf(g)
        /\ \A k \in DOMAIN diffs :
              Range(diffs[k]) = {f \in Returned : TextOf(f) = k}
        /\ Groups = {{g \in Returned : TextOf(g) = TextOf(f)} : f \in Returned}

C11_Witness ==
    /\ action = "diff"
    /\ pc = "done"
    /\ selection = <<2, 1>>
    /\ DOMAIN diffs = {"+set x;"}
    /\ diffs["+set x;"] = <<2, 1>>
    /\ status = 0

\* C13: a query the device directory rejects ends the run with the
\* selection error at once: no device is assembled, rendered or handed to
\* a handler, nothing is recorded or written, and no status is returned.
C13_SelectionErrorFatal ==
    /\ error = "SelectionError" <=> (~query.valid /\ pc = "raised")
    /\ ~query.valid =>
          /\ pc \in {"execute", "raised"}
          /\ status = -1
          /\ selection = <<>>
          /\ cur = NoCur
          /\ hist = NoHist
          /\ successes = NoSuccesses
          /\ diffs = NoDiffs
          /\ connection = {}
          /\ \A p \in DOMAIN out_dir : out_dir[p].content = "stale"

C13_Witness ==
    /\ error = "SelectionError"
    /\ action = "commit"
    /\ pc = "raised"

\* C14: for each action, a query that selects no device gives a run that
\* returns 0 with both buckets and the diff map empty, and nothing is
\* assembled, rendered, written or connected to.
C14_EmptySelection ==
    (action \in Actions /\ query.valid /\ query.result = <<>>) =>
        /\ pc \in {"execute", "loop", "done"}
        /\ error = ""
        /\ status \in {-1, 0}
        /\ pc = "done" <=> status = 0
        /\ cur = NoCur
        /\ hist = NoHist
        /\ successes = NoSuccesses
        /\ diffs = NoDiffs
        /\ connection = {}
        /\ \A p \in DOMAIN out_dir : out_dir[p].content = "stale"

C14_Witness ==
    /\ action = "diff"
    /\ query.valid
    /\ selection = <<>>
    /\ pc = "done"
    /\ status = 0

\* Position of a selected device in the selection.
Pos(f) == CHOOSE p \in 1..Len(selection) : selection[p] = f

InSelectionOrder(list) ==
    /\ Range(list) \subseteq Range(selection)
    /\ \A i, j \in 1..Len(list) : i < j => Pos(list[i]) < Pos(list[j])

Processed == hist.render_failed \cup Returned

\* C16: devices are processed one after another in the order of the
\* selection: the devices dealt with so far are those before the position
\* of the loop and the iteration in progress is that of the device at the
\* position; each bucket and each diff-map group lists its devices in the
\* order of the selection.
C16_Order ==
    /\ Processed = {selection[i] : i \in 1..(idx - 1)}
    /\ pc \in {"callback", "connected", "prompting", "finalize"} =>
          /\ cur.pos = idx
          /\ cur.fqdn = selection[idx]
    /\ InSelectionOrder(successes[TRUE])
    /\ InSelectionOrder(successes[FALSE])
    /\ \A k \in DOMAIN diffs : InSelectionOrder(diffs[k])

C16_Witness ==
    /\ pc = "done"
    /\ selection = <<3, 1, 2>>
    /\ successes[TRUE] = <<3, 2>>
    /\ successes[FALSE] = <<1>>
    /\ action = "diff"
    /\ DOMAIN diffs = {""}
    /\ diffs[""] = <<3, 1, 2>>

\* C18: the groups of the diff map partition the devices whose handler
\* returned: each is listed once, under the diff text its handler
\* returned, and is in the bucket of the flag its handler returned, also
\* when that flag is False and the text is not empty; a device whose
\* assembly or render failed is in the failure bucket and in no group.
C18_DiffPartition ==
    /\ UNION Groups = Returned
    /\ \A f \in Returned :
          /\ DiffOccurrences(f) = 1
          /\ TextOf(f) \in DOMAIN diffs
          /\ f \in Range(diffs[TextOf(f)])
          /\ f \in Range(successes[FlagOf(f)])
          /\ f \notin Range(successes[~FlagOf(f)])
    /\ \A f \in hist.render_failed :
          /\ f \in Failed
          /\ f \notin UNION Groups

C18_Witness ==
    /\ action = "diff"
    /\ pc = "done"
    /\ hist.render_failed # {}
    /\ \E f \in Returned :
          /\ hist.results[f] = <<FALSE, "+set x;">>
          /\ f \in Failed
          /\ f \in Range(diffs["+set x;"])

\* Regular files of the directory with the suffix of generated files.
OutFiles(dir) ==
    {p \in DOMAIN dir : dir[p].is_file /\ p[2] = OUT_EXTENSION}

\* C19: in a generate run the output directory exists and holds no
\* generated file when the query is about to be resolved, so none is left
\* when the run ends with the selection error; at any later point,
\* also after an error that aborts the run, every generated file in the
\* directory has been written by this run.
C19_PurgeBeforeQuery ==
    action = "generate" =>
        /\ out_exists
        /\ (pc = "execute" \/ error = "SelectionError") =>
              /\ OutFiles(out_dir) = {}
              /\ cur = NoCur
              /\ hist = NoHist
        /\ \A p \in OutFiles(out_dir) : p[1] \in hist.invoked

C19_Witness ==
    /\ action = "generate"
    /\ error = "SelectionError"
    /\ NotesPath \in DOMAIN out_dir
    /\ OutPath(1) \notin DOMAIN out_dir

\* C15: a call of the confirmation callback reads at most 2 responses and
\* has ended, confirmed or aborted, once the operator has given 2; each
\* call starts counting from nothing, whatever an earlier call on another
\* device consumed.
C15_PromptBudget ==
    /\ Len(cur.responses) <= PromptAttempts
    /\ pc = "prompting" =>
          /\ cur.cb = ""
          /\ attempts = Len(cur.responses)
          /\ attempts < PromptAttempts
          /\ \A i \in 1..Len(cur.responses) : ~IsValid(cur.responses[i])
    /\ Len(cur.responses) = PromptAttempts =>
          /\ cur.cb \in {"CONFIRMED", "ABORTED", "TOO_MANY"}
          /\ cur.cb = "CONFIRMED" <=> cur.responses[PromptAttempts] = "yes"
          /\ cur.cb # "CONFIRMED" => cur.fqdn \in hist.aborted
    /\ cur.cb \in {"ABORTED", "TOO_MANY"} =>
          /\ cur.responses # <<>>
          /\ cur.fqdn \in hist.aborted
          /\ cur.fqdn \notin hist.finalized

\* A later device is confirmed with its second response after the
\* callback of an earlier device was aborted at the prompt.
C15_Witness ==
    /\ action = "commit"
    /\ isatty
    /\ hist.aborted # {}
    /\ cur.fqdn \notin hist.aborted
    /\ cur.responses = <<"maybe", "yes">>
    /\ cur.cb = "CONFIRMED"
    /\ attempts = 1

\* C12: with the data of the devices fixed, a generate run that completes
\* after an earlier completed generate run on the same query leaves the
\* output directory as the earlier run left it; and when a generate run
\* has completed, every generated file in the directory is that of a
\* device this run wrote, with the text the device rendered to, so a
\* file left by an earlier run for a device that was not selected or
\* failed to render is gone.
C12_Idempotent ==
    (action = "generate" /\ pc = "done") =>
        /\ (first.ran /\ first.completed /\ query = first.query) =>
              out_dir = first.out_dir
        /\ \A p \in OutFiles(out_dir) :
              /\ p[1] \in Returned
              /\ out_dir[p] = File(data[p[1]])
        /\ \A f \in Returned : OutPath(f) \in OutFiles(out_dir)

\* The second of two completed runs on two devices: device 1, for which an
\* earlier run had left a file, fails to render and has no file; device 2
\* has the file both runs wrote.
C12_Witness ==
    /\ action = "generate"
    /\ pc = "done"
    /\ first.ran
    /\ first.completed
    /\ selection = <<2, 1>>
    /\ NotesPath \in DOMAIN out_dir
    /\ 1 \in hist.render_failed
    /\ OutPath(1) \notin DOMAIN out_dir
    /\ OutPath(2) \in DOMAIN out_dir
    /\ out_dir[OutPath(2)] = File("cfg2")
    /\ out_dir = first.out_dir

\* C17: when closing the connection raises a domain error after the
\* handler's work for a device, the device is recorded with the result
\* that work produced, no error leaves the action, and the loop goes on
\* to the next device.
C17_CloseErrorNotMasking ==
    cur.raised = "close" =>
        /\ cur.fqdn \in Range(successes[cur.result[1]])
        /\ cur.result[2] \in DOMAIN diffs
        /\ cur.fqdn \in Range(diffs[cur.result[2]])
        /\ error = ""
        /\ pc # "raised"
        /\ idx > cur.pos

====
